---- MODULE Spec2Model ----
(***************************************************************************)
(* A model of the go.vm compiler (src/compiler/compiler.go): the scanning  *)
(* loop of Compile with one action per case of its switch, the fixup pass  *)
(* with one action per visited entry of the fixups map, and Write.         *)
(*                                                                         *)
(* Text (token literals, label names) is a sequence of character codes.    *)
(* Byte offsets are 0-based as in the source; bytecode[i + 1] is the byte  *)
(* at offset i.  The state keeps byte sequences cut into pages of 256      *)
(* bytes (mem, and the literals of stream); bytecode and toks are the       *)
(* sequences themselves.                                                   *)
(***************************************************************************)
EXTENDS Integers, Sequences, FiniteSets, TLC

VARIABLES
    stream,    \* the token stream the lexer produces, without the final EOF
    pos,       \* index in toks of curToken (peekToken is the one after it)
    mem,       \* generated bytecode
    labels,    \* label name -> offset
    fixups,    \* offset -> label name
    pc,        \* "scan", "fixup", "done", "written"; "exit", "panic" (aborted)
    visited,   \* the fixups entries (offsets) the range loop has visited
    warned,    \* offsets whose visit printed "Possible use of undefined label"
    unhandled, \* positions of the tokens printed as "Unhandled token"
    failMsg,   \* number of "Fail!" messages trapOp printed
    written    \* the output file: <<>> until Write, then <<its bytes>>

vars == <<stream, pos, mem, labels, fixups, pc, visited, warned, unhandled,
          failMsg, written>>

-----------------------------------------------------------------------------
(* Opcodes (package opcode). *)

EXIT == 0
INT_STORE == 1
INT_PRINT == 2
INT_TOSTRING == 3
INT_RANDOM == 4
JUMP_TO == 16
JUMP_Z == 17
JUMP_NZ == 18
XOR_OP == 32
ADD_OP == 33
SUB_OP == 34
MUL_OP == 35
DIV_OP == 36
INC_OP == 37
DEC_OP == 38
AND_OP == 39
OR_OP == 40
STRING_STORE == 48
STRING_PRINT == 49
STRING_CONCAT == 50
STRING_SYSTEM == 51
STRING_TOINT == 52
CMP_REG == 64
CMP_IMMEDIATE == 65
CMP_STRING == 66
IS_STRING == 67
IS_INTEGER == 68
NOP_OP == 80
REG_STORE == 81
PEEK == 96
POKE == 97
MEMCPY == 98
STACK_PUSH == 112
STACK_POP == 113
STACK_RET == 114
STACK_CALL == 115
TRAP_OP == 128

-----------------------------------------------------------------------------
(* Tokens (package token) and text. *)

chHash == 35
chColon == 58

Token(type, literal) == [Type |-> type, Literal |-> literal]

\* A byte sequence cut into pages, and back.
Pages(s) ==
    [k \in 1..((Len(s) + 255) \div 256) |->
        SubSeq(s, 256 * (k - 1) + 1, IF 256 * k < Len(s) THEN 256 * k ELSE Len(s))]
Flat(p) ==
    IF Len(p) = 0 THEN <<>>
    ELSE [i \in 1..(256 * (Len(p) - 1) + Len(p[Len(p)])) |->
            p[((i - 1) \div 256) + 1][((i - 1) % 256) + 1]]

\* The token stream and the buffer.
toks == [i \in 1..Len(stream) |-> Token(stream[i].Type, Flat(stream[i].Literal))]
bytecode == Flat(mem)

EOFToken == Token("EOF", <<>>)

\* The token at index i of the stream; the lexer answers EOF from the end on.
Tok(i) == IF i \in 1..Len(stream) THEN toks[i] ELSE EOFToken

curToken == Tok(pos)
peekToken == Tok(pos + 1)

\* strings.TrimPrefix(s, string(c))
TrimPrefix(s, c) == IF Len(s) > 0 /\ s[1] = c THEN Tail(s) ELSE s

\* strings.HasPrefix(s, string(c))
HasPrefix(s, c) == Len(s) > 0 /\ s[1] = c

\* The value of a digit character in bases up to 16, 99 for any other.
DigitVal(c) ==
    IF c \in 48..57 THEN c - 48
    ELSE IF c \in 97..102 THEN c - 87
    ELSE IF c \in 65..70 THEN c - 55
    ELSE 99

RECURSIVE ParseDigits(_, _, _)
\* The digits s read in the given base on top of acc; -1 for a syntax error.
ParseDigits(s, base, acc) ==
    IF Len(s) = 0 THEN acc
    ELSE IF DigitVal(s[1]) >= base THEN -1
    ELSE ParseDigits(Tail(s), base, acc * base + DigitVal(s[1]))

\* strconv.Atoi(s): [err, val]. An optional sign, then decimal digits.
Atoi(s) ==
    LET neg == HasPrefix(s, 45)
        body == IF HasPrefix(s, 45) \/ HasPrefix(s, 43) THEN Tail(s) ELSE s
        v == IF Len(body) = 0 THEN -1 ELSE ParseDigits(body, 10, 0)
    IN  IF v < 0 THEN [err |-> TRUE, val |-> 0]
        ELSE [err |-> FALSE, val |-> IF neg THEN -v ELSE v]

\* strconv.ParseInt(s, 0, 64) with its error dropped: the base comes from the
\* prefix (0x hex, 0b binary, 0o or a leading 0 octal, else decimal), and a
\* syntax error gives 0.  (Literals stay below 2^31; underscores are left out.)
ParseInt(s) ==
    LET neg == HasPrefix(s, 45)
        body == IF HasPrefix(s, 45) \/ HasPrefix(s, 43) THEN Tail(s) ELSE s
        pfx == IF Len(body) >= 2 /\ body[1] = 48 THEN body[2] ELSE 0
        base == IF pfx \in {120, 88} THEN 16
                ELSE IF pfx \in {98, 66} THEN 2
                ELSE IF pfx \in {111, 79} THEN 8
                ELSE IF Len(body) >= 2 /\ body[1] = 48 THEN 8
                ELSE 10
        digits == IF pfx \in {120, 88, 98, 66, 111, 79}
                  THEN SubSeq(body, 3, Len(body))
                  ELSE IF base = 8 THEN Tail(body) ELSE body
        v == IF Len(digits) = 0 THEN -1 ELSE ParseDigits(digits, base, 0)
    IN  IF v < 0 THEN 0 ELSE IF neg THEN -v ELSE v

\* Go's a % b (the remainder has the sign of a), for b > 0.
GoRem(a, b) == IF a >= 0 THEN a % b ELSE -((-a) % b)

\* Go's byte(x): the low eight bits.
byte(x) == x % 256

\* The two bytes, high byte first.
TwoBytesBigEndian(v) ==
    LET len1 == GoRem(v, 256)
        len2 == (v - len1) \div 256
    IN  <<byte(len2), byte(len1)>>

\* The two bytes every handler emits for a number:
\*   len1 := v % 256; len2 := (v - len1) / 256; byte(len1), byte(len2)
TwoBytes(v) ==
    LET len1 == GoRem(v, 256)
        len2 == (v - len1) \div 256
    IN  <<byte(len1), byte(len2)>>

-----------------------------------------------------------------------------
(* Registers. *)

\* isRegister looking for another sigil.
isRegisterDollar(input) == HasPrefix(input, 36)

\* isRegister
isRegister(input) == HasPrefix(input, chHash)

\* getRegister with the bound off by one.
getRegisterLoose(input) ==
    LET num == TrimPrefix(input, chHash)
        r == Atoi(num)
    IN  IF r.err THEN [how |-> "panic", val |-> 0]
        ELSE IF (r.val >= 0) /\ (r.val <= 16) THEN [how |-> "ok", val |-> byte(r.val)]
        ELSE [how |-> "exit", val |-> 0]

\* getRegister: [how, val]; how is "ok", "exit" (os.Exit) or "panic".
getRegister(input) ==
    LET num == TrimPrefix(input, chHash)
        r == Atoi(num)
    IN  IF r.err THEN [how |-> "panic", val |-> 0]
        ELSE IF (r.val >= 0) /\ (r.val <= 15) THEN [how |-> "ok", val |-> byte(r.val)]
        ELSE [how |-> "exit", val |-> 0]

-----------------------------------------------------------------------------
(* What one handler does: the nextToken calls it made (adv), the bytes it   *)
(* appended (out), the fixups it recorded (fix), whether it printed "Fail!" *)
(* (msg), and how it ended (how): "ok", "exit" or "panic".                  *)

NoFix == [a \in {} |-> <<>>]

Res(adv, out, fix, how) ==
    [adv |-> adv, out |-> out, fix |-> fix, how |-> how, msg |-> 0]

\* expectPeek(t) with the cursor k tokens past pos: the peek token is t.
\* (When it is not, peekError ends the process.)
expectPeek(k, t) == Tok(pos + k + 1).Type = t

-----------------------------------------------------------------------------
(* The handlers.  Each is read at the moment the dispatcher calls it: the   *)
(* mnemonic is Tok(pos), its operands follow.                               *)

\* nopOp
nopOp == Res(0, <<NOP_OP>>, NoFix, "ok")

\* exitOp
exitOp == Res(0, <<EXIT>>, NoFix, "ok")

\* retOp
retOp == Res(0, <<STACK_RET>>, NoFix, "ok")

\* The shape push, pop, inc, dec, rand, isStr, str2Int, int2Str, system and
\* isInt share: expectPeek(IDENT), getRegister, then the two appends.
registerOp(op) ==
    IF ~expectPeek(0, "IDENT") THEN Res(0, <<>>, NoFix, "exit")
    ELSE LET reg == getRegister(Tok(pos + 1).Literal)
         IN  IF reg.how # "ok" THEN Res(1, <<>>, NoFix, reg.how)
             ELSE Res(1, <<op, reg.val>>, NoFix, "ok")

pushOp == registerOp(STACK_PUSH)
popOp == registerOp(STACK_POP)
incOp == registerOp(INC_OP)
decOp == registerOp(DEC_OP)
randOp == registerOp(INT_RANDOM)
isStrOp == registerOp(IS_STRING)
str2IntOp == registerOp(STRING_TOINT)
int2StrOp == registerOp(INT_TOSTRING)
systemOp == registerOp(STRING_SYSTEM)
isIntOp == registerOp(IS_INTEGER)

\* The shape printInt and printString share: the opcode is appended before
\* getRegister is called.
printOp(op) ==
    IF ~expectPeek(0, "IDENT") THEN Res(0, <<>>, NoFix, "exit")
    ELSE LET reg == getRegister(Tok(pos + 1).Literal)
         IN  IF reg.how # "ok" THEN Res(1, <<op>>, NoFix, reg.how)
             ELSE Res(1, <<op, reg.val>>, NoFix, "ok")

printInt == printOp(INT_PRINT)
printString == printOp(STRING_PRINT)

\* peekOp
peekOp ==
    IF ~expectPeek(0, "IDENT") THEN Res(0, <<>>, NoFix, "exit")
    ELSE LET res == getRegister(Tok(pos + 1).Literal)
         IN  IF res.how # "ok" THEN Res(1, <<>>, NoFix, res.how)
             ELSE IF ~expectPeek(1, "COMMA") THEN Res(1, <<>>, NoFix, "exit")
             ELSE IF Tok(pos + 3).Type # "IDENT" THEN Res(3, <<>>, NoFix, "ok")
             ELSE LET addr == getRegister(Tok(pos + 3).Literal)
                  IN  IF addr.how # "ok" THEN Res(3, <<>>, NoFix, addr.how)
                      ELSE Res(3, <<PEEK, res.val, addr.val>>, NoFix, "ok")

\* pokeOp
pokeOp ==
    IF ~expectPeek(0, "IDENT") THEN Res(0, <<>>, NoFix, "exit")
    ELSE LET val == getRegister(Tok(pos + 1).Literal)
         IN  IF val.how # "ok" THEN Res(1, <<>>, NoFix, val.how)
             ELSE IF ~expectPeek(1, "COMMA") THEN Res(1, <<>>, NoFix, "exit")
             ELSE IF Tok(pos + 3).Type # "IDENT" THEN Res(3, <<>>, NoFix, "ok")
             ELSE LET addr == getRegister(Tok(pos + 3).Literal)
                  IN  IF addr.how # "ok" THEN Res(3, <<>>, NoFix, addr.how)
                      ELSE Res(3, <<POKE, val.val, addr.val>>, NoFix, "ok")

\* callOp
callOp ==
    LET t == Tok(pos + 1)
    IN  IF t.Type = "INT"
        THEN Res(1, <<STACK_CALL>> \o TwoBytes(ParseInt(t.Literal)), NoFix, "ok")
        ELSE IF t.Type = "IDENT"
        THEN Res(1, <<STACK_CALL, 0, 0>>,
                 (Len(bytecode) + 1) :> t.Literal, "ok")
        ELSE Res(1, <<STACK_CALL>>, NoFix, "ok")

\* trapOp
trapOp ==
    LET t == Tok(pos + 1)
    IN  IF t.Type = "INT"
        THEN Res(1, <<TRAP_OP>> \o TwoBytes(ParseInt(t.Literal)), NoFix, "ok")
        ELSE [Res(1, <<>>, NoFix, "ok") EXCEPT !.msg = 1]

\* A jumpOp that records the fixup before it appends the opcode.
jumpOpEarlyFixup(operator) ==
    LET t == Tok(pos + 1)
    IN  IF t.Type = "INT"
        THEN Res(1, <<operator>> \o TwoBytes(ParseInt(t.Literal)), NoFix, "ok")
        ELSE IF t.Type = "IDENT"
        THEN Res(1, <<operator, 0, 0>>, Len(bytecode) :> t.Literal, "ok")
        ELSE Res(1, <<operator>>, NoFix, "ok")

\* jumpOp
jumpOp(operator) ==
    LET t == Tok(pos + 1)
    IN  IF t.Type = "INT"
        THEN Res(1, <<operator>> \o TwoBytes(ParseInt(t.Literal)), NoFix, "ok")
        ELSE IF t.Type = "IDENT"
        THEN Res(1, <<operator, 0, 0>>,
                 (Len(bytecode) + 1) :> t.Literal, "ok")
        ELSE Res(1, <<operator>>, NoFix, "ok")

\* memcpyOp
memcpyOp ==
    LET one == getRegister(Tok(pos + 1).Literal)
        two == getRegister(Tok(pos + 3).Literal)
        three == getRegister(Tok(pos + 5).Literal)
    IN  IF one.how # "ok" THEN Res(1, <<>>, NoFix, one.how)
        ELSE IF ~expectPeek(1, "COMMA") THEN Res(1, <<>>, NoFix, "exit")
        ELSE IF two.how # "ok" THEN Res(3, <<>>, NoFix, two.how)
        ELSE IF ~expectPeek(3, "COMMA") THEN Res(3, <<>>, NoFix, "exit")
        ELSE IF three.how # "ok" THEN Res(5, <<>>, NoFix, three.how)
        ELSE Res(5, <<MEMCPY, one.val, two.val, three.val>>, NoFix, "ok")

\* concatOp
concatOp ==
    LET dst == getRegister(Tok(pos + 1).Literal)
        a == getRegister(Tok(pos + 3).Literal)
        b == getRegister(Tok(pos + 5).Literal)
    IN  IF dst.how # "ok" THEN Res(1, <<>>, NoFix, dst.how)
        ELSE IF ~expectPeek(1, "COMMA") THEN Res(1, <<>>, NoFix, "exit")
        ELSE IF a.how # "ok" THEN Res(3, <<>>, NoFix, a.how)
        ELSE IF ~expectPeek(3, "COMMA") THEN Res(3, <<>>, NoFix, "exit")
        ELSE IF b.how # "ok" THEN Res(5, <<>>, NoFix, b.how)
        ELSE Res(5, <<STRING_CONCAT, dst.val, a.val, b.val>>, NoFix, "ok")

\* mathOperation
mathOperation(operation) ==
    IF ~expectPeek(0, "IDENT") THEN Res(0, <<>>, NoFix, "exit")
    ELSE LET dst == getRegister(Tok(pos + 1).Literal)
             src1 == getRegister(Tok(pos + 3).Literal)
             src2 == getRegister(Tok(pos + 5).Literal)
         IN  IF dst.how # "ok" THEN Res(1, <<>>, NoFix, dst.how)
             ELSE IF ~expectPeek(1, "COMMA") THEN Res(1, <<>>, NoFix, "exit")
             ELSE IF Tok(pos + 3).Type # "IDENT" THEN Res(3, <<>>, NoFix, "ok")
             ELSE IF src1.how # "ok" THEN Res(3, <<>>, NoFix, src1.how)
             ELSE IF ~expectPeek(3, "COMMA") THEN Res(3, <<>>, NoFix, "exit")
             ELSE IF Tok(pos + 5).Type # "IDENT" THEN Res(5, <<>>, NoFix, "ok")
             ELSE IF src2.how # "ok" THEN Res(5, <<>>, NoFix, src2.how)
             ELSE Res(5, <<operation, dst.val, src1.val, src2.val>>, NoFix, "ok")

\* storeOp
storeOp ==
    IF ~expectPeek(0, "IDENT") THEN Res(0, <<>>, NoFix, "exit")
    ELSE LET reg == getRegister(Tok(pos + 1).Literal)
             t == Tok(pos + 3)
             src == getRegister(t.Literal)
         IN  IF reg.how # "ok" THEN Res(1, <<>>, NoFix, reg.how)
             ELSE IF ~expectPeek(1, "COMMA") THEN Res(1, <<>>, NoFix, "exit")
             ELSE IF t.Type = "STRING"
             THEN Res(3, <<STRING_STORE, reg.val>> \o TwoBytes(Len(t.Literal))
                         \o [i \in 1..Len(t.Literal) |-> byte(t.Literal[i])],
                      NoFix, "ok")
             ELSE IF t.Type = "INT"
             THEN Res(3, <<INT_STORE, reg.val>> \o TwoBytes(ParseInt(t.Literal)),
                      NoFix, "ok")
             ELSE IF t.Type = "IDENT"
             THEN IF isRegister(t.Literal)
                  THEN IF src.how # "ok"
                       THEN Res(3, <<REG_STORE, reg.val>>, NoFix, src.how)
                       ELSE Res(3, <<REG_STORE, reg.val, src.val>>, NoFix, "ok")
                  ELSE Res(3, <<INT_STORE, reg.val, 0, 0>>,
                           (Len(bytecode) + 2) :> t.Literal, "ok")
             ELSE Res(3, <<>>, NoFix, "exit")

\* cmpOp
cmpOp ==
    IF ~expectPeek(0, "IDENT") THEN Res(0, <<>>, NoFix, "exit")
    ELSE LET reg == getRegister(Tok(pos + 1).Literal)
             t == Tok(pos + 3)
             src == getRegister(t.Literal)
         IN  IF reg.how # "ok" THEN Res(1, <<>>, NoFix, reg.how)
             ELSE IF ~expectPeek(1, "COMMA") THEN Res(1, <<>>, NoFix, "exit")
             ELSE IF t.Type = "STRING"
             THEN Res(3, <<CMP_STRING, reg.val>> \o TwoBytes(Len(t.Literal))
                         \o [i \in 1..Len(t.Literal) |-> byte(t.Literal[i])],
                      NoFix, "ok")
             ELSE IF t.Type = "INT"
             THEN Res(3, <<CMP_IMMEDIATE, reg.val>> \o TwoBytes(ParseInt(t.Literal)),
                      NoFix, "ok")
             ELSE IF t.Type = "IDENT"
             THEN IF isRegister(t.Literal)
                  THEN IF src.how # "ok"
                       THEN Res(3, <<CMP_REG, reg.val>>, NoFix, src.how)
                       ELSE Res(3, <<CMP_REG, reg.val, src.val>>, NoFix, "ok")
                  ELSE Res(3, <<CMP_IMMEDIATE, reg.val, 0, 0>>,
                           (Len(bytecode) + 2) :> t.Literal, "ok")
             ELSE Res(3, <<>>, NoFix, "exit")

\* dataOp's loop taking every other integer.
dataLoopSkipping(k, out) ==
    IF Tok(pos + k + 1).Type # "COMMA" THEN Res(k, out, NoFix, "ok")
    ELSE IF ~expectPeek(k + 1, "INT") THEN Res(k + 1, out, NoFix, "exit")
    ELSE Res(k + 2, out, NoFix, "ok")

RECURSIVE dataLoop(_, _)
\* dataOp's loop, the cursor k tokens past pos and out appended so far:
\* while the peek token is a comma, skip it and expect an INT.
dataLoop(k, out) ==
    IF Tok(pos + k + 1).Type # "COMMA" THEN Res(k, out, NoFix, "ok")
    ELSE IF ~expectPeek(k + 1, "INT") THEN Res(k + 1, out, NoFix, "exit")
    ELSE dataLoop(k + 2, Append(out, byte(ParseInt(Tok(pos + k + 2).Literal))))

\* dataOp
dataOp ==
    LET t == Tok(pos + 1)
    IN  IF t.Type = "STRING"
        THEN Res(1, [i \in 1..Len(t.Literal) |-> byte(t.Literal[i])], NoFix, "ok")
        ELSE dataLoop(1, <<byte(ParseInt(t.Literal))>>)

-----------------------------------------------------------------------------
(* The token streams compiled.                                              *)

MaxStmts == 2
MaxLabelStmts == 3
MaxData == 3

RECURSIVE Dec(_)
\* The decimal text of n >= 0.
Dec(n) == IF n < 10 THEN <<48 + n>> ELSE Dec(n \div 10) \o <<48 + (n % 10)>>

\* A mnemonic's token; its text (here "op") is letters only.
Kw(type) == Token(type, <<111, 112>>)
Reg(n) == Token("IDENT", <<chHash>> \o Dec(n))
Name(text) == Token("IDENT", text)
Num(n) == Token("INT", Dec(n))
Str(text) == Token("STRING", text)
Lbl(text) == Token("LABEL", <<chColon>> \o text)
Comma == Token("COMMA", <<44>>)

nameA == <<97>>
nameB == <<98>>
textAB == <<65, 66>>
\* A string literal of n bytes.
Filler(n) == [i \in 1..n |-> 120]

RegisterMnemonics ==
    {"INC", "DEC", "RANDOM", "IS_INTEGER", "IS_STRING", "STRING2INT",
     "INT2STRING", "SYSTEM", "PUSH", "POP", "PRINT_INT", "PRINT_STR"}
MathMnemonics == {"ADD", "XOR", "SUB", "MUL", "DIV", "AND", "OR"}
JumpMnemonics == {"GOTO", "JMP", "JMPZ", "JMPNZ"}
Mnemonics ==
    RegisterMnemonics \cup MathMnemonics \cup JumpMnemonics \cup
    {"EXIT", "RET", "NOP", "CALL", "CMP", "CONCAT", "DB", "DATA", "TRAP",
     "MEMCPY", "PEEK", "POKE", "STORE"}

\* Tokens tried in every operand position.
Operands ==
    {Reg(0), Reg(7), Reg(15), Reg(16), Name(nameA), Name(<<chHash, 120>>),
     Num(5), Num(42), Str(textAB), Comma, Lbl(nameA), Kw("EXIT")}

\* Values tried as an immediate.
Immediates == {0, 42, 255, 256, 300, 65535, 65536, 65836}

\* Every way to put one token of ts in place of one token of line, or to cut
\* line short, together with line itself.
Variants(line, ts) ==
    {line}
    \cup {[line EXCEPT ![i] = t] : i \in 2..Len(line), t \in ts}
    \cup {SubSeq(line, 1, n) : n \in 1..Len(line)}

\* Values tried in a data list.
DataValues == {1, 2, 3, 300}

RECURSIVE IntLists(_)
\* The comma-separated lists of n integers.
IntLists(n) ==
    IF n = 1 THEN {<<Num(v)>> : v \in DataValues}
    ELSE {l \o <<Comma, Num(v)>> : l \in IntLists(n - 1), v \in DataValues}

\* Single statements, well-formed and not.
Statements ==
    {<<Kw(m)>> : m \in {"EXIT", "RET", "NOP"}}
    \cup {<<Kw(m), t>> : m \in RegisterMnemonics \cup JumpMnemonics \cup {"CALL", "TRAP", "DB"},
                         t \in Operands}
    \cup {<<Kw(m)>> : m \in Mnemonics}
    \cup {<<Kw(m), Num(v)>> : m \in JumpMnemonics \cup {"CALL", "TRAP"}, v \in Immediates}
    \cup UNION {Variants(<<Kw(m), Reg(1), Comma, Reg(2)>>, Operands) : m \in {"PEEK", "POKE"}}
    \cup UNION {Variants(<<Kw(m), Reg(1), Comma, Reg(2), Comma, Reg(3)>>, Operands) :
                m \in {"ADD", "MEMCPY", "CONCAT"}}
    \cup {<<Kw(m), Reg(0), Comma, Reg(14), Comma, Reg(15)>> : m \in MathMnemonics}
    \cup UNION {Variants(<<Kw(m), Reg(1), Comma, Num(42)>>, Operands) : m \in {"STORE", "CMP"}}
    \cup {<<Kw(m), Reg(r), Comma, x>> :
            m \in {"STORE", "CMP"}, r \in 0..15,
            x \in {Num(v) : v \in Immediates}
                  \cup {Str(<<>>), Str(textAB), Str(Filler(300)), Reg(0), Reg(15),
                        Reg(16), Name(nameA)}}
    \cup {<<Kw(m)>> \o l : m \in {"DB", "DATA"}, l \in UNION {IntLists(n) : n \in 1..MaxData}}
    \cup {<<Kw(m), Str(s)>> : m \in {"DB", "DATA"}, s \in {<<>>, textAB, Filler(300)}}
    \cup {<<Kw("DB"), Num(1), Comma, Num(2), Comma>>,
          <<Kw("DB"), Num(1), Comma, Name(nameA)>>,
          <<Kw("DB"), Str(textAB), Comma, Num(1)>>,
          <<Kw("DB"), Num(1), Num(2)>>}
    \cup {<<t>> : t \in {Num(7), Comma, Str(textAB), Name(nameA), Reg(1)}}

\* The lines longer programs are made of.
Lines ==
    {<<Kw("EXIT")>>, <<Kw("INC"), Reg(1)>>, <<Kw("INC"), Reg(16)>>,
     <<Kw("PEEK"), Reg(1), Comma, Num(5)>>,
     <<Kw("ADD"), Reg(1), Comma, Reg(2), Comma, Str(textAB)>>,
     <<Kw("MEMCPY"), Num(1), Comma, Num(2), Comma, Num(3)>>,
     <<Kw("STORE"), Reg(1), Comma, Num(42)>>,
     <<Kw("STORE"), Reg(1), Comma, Comma>>,
     <<Kw("CMP"), Reg(0), Comma, Name(nameA)>>,
     <<Kw("JMP"), Name(nameA)>>, <<Kw("JMP"), Comma>>,
     <<Kw("CALL"), Str(textAB)>>,
     <<Kw("TRAP"), Name(nameA)>>, <<Kw("TRAP"), Num(3)>>,
     <<Kw("DB"), Num(1), Comma, Num(2)>>, <<Kw("DB"), Num(1), Comma>>,
     <<Lbl(nameA)>>, <<Num(7)>>}

\* The lines programs about labels are made of.
LabelLines ==
    {<<Lbl(nameA)>>, <<Lbl(nameB)>>, <<Kw("EXIT")>>,
     <<Kw("JMP"), Name(nameA)>>, <<Kw("CALL"), Name(nameB)>>,
     <<Kw("STORE"), Reg(1), Comma, Name(nameA)>>,
     <<Kw("CMP"), Reg(0), Comma, Name(nameB)>>,
     <<Kw("DB"), Str(Filler(300))>>}

RECURSIVE Concat(_, _)
\* The streams of at most n lines of ls.
Concat(ls, n) ==
    IF n = 0 THEN {<<>>}
    ELSE LET shorter == Concat(ls, n - 1)
         IN  shorter \cup {p \o l : p \in shorter, l \in ls}

\* Programs past the 16-bit range of an offset or a length.
Large ==
    {<<Kw("DB"), Str(Filler(65536 + 3)), Lbl(nameA), Kw("JMP"), Name(nameA)>>,
     <<Kw("STORE"), Reg(1), Comma, Str(Filler(65536 + 2))>>,
     <<Kw("CMP"), Reg(1), Comma, Str(Filler(65536 + 2))>>}

Programs ==
    Statements \cup Concat(Lines, MaxStmts) \cup Concat(LabelLines, MaxLabelStmts)
    \cup Large

-----------------------------------------------------------------------------
(* The compiler. *)

\* New: empty tables, and two calls of nextToken
Init ==
    /\ stream \in {[i \in 1..Len(p) |-> Token(p[i].Type, Pages(p[i].Literal))] :
                    p \in Programs}
    /\ pos = 1
    /\ mem = <<>>
    /\ labels = [n \in {} |-> 0]
    /\ fixups = NoFix
    /\ pc = "scan"
    /\ visited = {}
    /\ warned = {}
    /\ unhandled = {}
    /\ failMsg = 0
    /\ written = <<>>

\* A turn of the loop without the loop's own nextToken.
StmtNoAdvance(type, r) ==
    /\ pc = "scan"
    /\ curToken.Type = type
    /\ mem' = Pages(bytecode \o r.out)
    /\ fixups' = r.fix @@ fixups
    /\ failMsg' = failMsg + r.msg
    /\ pos' = pos + r.adv
    /\ pc' = IF r.how = "ok" THEN "scan" ELSE r.how
    /\ UNCHANGED <<stream, labels, visited, warned, unhandled, written>>

\* One turn of Compile's loop on a token of the given type whose handler
\* does r, the loop's own nextToken included.  os.Exit and panic end the run.
Stmt(type, r) ==
    /\ pc = "scan"
    /\ curToken.Type = type
    /\ mem' = Pages(bytecode \o r.out)
    /\ fixups' = r.fix @@ fixups
    /\ failMsg' = failMsg + r.msg
    /\ pos' = IF r.how = "ok" THEN pos + r.adv + 1 ELSE pos + r.adv
    /\ pc' = IF r.how = "ok" THEN "scan" ELSE r.how
    /\ UNCHANGED <<stream, labels, visited, warned, unhandled, written>>

\* case token.LABEL, binding the label one byte late.
LabelOffByOne ==
    /\ pc = "scan"
    /\ curToken.Type = "LABEL"
    /\ labels' = (TrimPrefix(curToken.Literal, chColon) :> (Len(bytecode) + 1)) @@ labels
    /\ pos' = pos + 1
    /\ UNCHANGED <<stream, mem, fixups, pc, visited, warned, unhandled,
                   failMsg, written>>

\* case token.LABEL
Label ==
    /\ pc = "scan"
    /\ curToken.Type = "LABEL"
    /\ labels' = (TrimPrefix(curToken.Literal, chColon) :> Len(bytecode)) @@ labels
    /\ pos' = pos + 1
    /\ UNCHANGED <<stream, mem, fixups, pc, visited, warned, unhandled,
                   failMsg, written>>

Exit == Stmt("EXIT", exitOp)
Inc == Stmt("INC", incOp)
Dec_ == Stmt("DEC", decOp)
Random == Stmt("RANDOM", randOp)
Ret == Stmt("RET", retOp)
Call == Stmt("CALL", callOp)
IsInteger == Stmt("IS_INTEGER", isIntOp)
IsString == Stmt("IS_STRING", isStrOp)
String2Int == Stmt("STRING2INT", str2IntOp)
Int2String == Stmt("INT2STRING", int2StrOp)
System == Stmt("SYSTEM", systemOp)
Cmp == Stmt("CMP", cmpOp)
Concat_ == Stmt("CONCAT", concatOp)
Db == Stmt("DB", dataOp)
Data == Stmt("DATA", dataOp)
Goto == Stmt("GOTO", jumpOp(JUMP_TO))
Trap == Stmt("TRAP", trapOp)
Jmp == Stmt("JMP", jumpOp(JUMP_TO))
Jmpz == Stmt("JMPZ", jumpOp(JUMP_Z))
Jmpnz == Stmt("JMPNZ", jumpOp(JUMP_NZ))
Memcpy == Stmt("MEMCPY", memcpyOp)
Nop == Stmt("NOP", nopOp)
Peek == Stmt("PEEK", peekOp)
Poke == Stmt("POKE", pokeOp)
Push == Stmt("PUSH", pushOp)
Pop == Stmt("POP", popOp)
Store == Stmt("STORE", storeOp)
PrintInt == Stmt("PRINT_INT", printInt)
PrintStr == Stmt("PRINT_STR", printString)
Add == Stmt("ADD", mathOperation(ADD_OP))
Xor == Stmt("XOR", mathOperation(XOR_OP))
Sub == Stmt("SUB", mathOperation(SUB_OP))
Mul == Stmt("MUL", mathOperation(MUL_OP))
Div == Stmt("DIV", mathOperation(DIV_OP))
And == Stmt("AND", mathOperation(AND_OP))
Or == Stmt("OR", mathOperation(OR_OP))

\* A default case that treats the token as a parse error.
UnhandledFatal ==
    /\ pc = "scan"
    /\ curToken.Type \notin Mnemonics \cup {"LABEL", "EOF"}
    /\ unhandled' = unhandled \cup {pos}
    /\ pc' = "exit"
    /\ UNCHANGED <<stream, pos, mem, labels, fixups, visited, warned,
                   failMsg, written>>

\* default: "Unhandled token"
Unhandled ==
    /\ pc = "scan"
    /\ curToken.Type \notin Mnemonics \cup {"LABEL", "EOF"}
    /\ unhandled' = unhandled \cup {pos}
    /\ pos' = pos + 1
    /\ UNCHANGED <<stream, mem, labels, fixups, pc, visited, warned,
                   failMsg, written>>

\* The loop ends at EOF.
EndOfStream ==
    /\ pc = "scan"
    /\ curToken.Type = "EOF"
    /\ pc' = "fixup"
    /\ UNCHANGED <<stream, pos, mem, labels, fixups, visited, warned,
                   unhandled, failMsg, written>>

\* A lookup that keeps the value of an earlier turn when the key is missing.
LookupStale(name) ==
    IF name \in DOMAIN labels THEN labels[name]
    ELSE LET prev == {labels[fixups[a]] :
                        a \in {b \in visited : fixups[b] \in DOMAIN labels}}
         IN  IF prev = {} THEN 0 ELSE CHOOSE v \in prev : \A w \in prev : w <= v

\* p.labels[name]: a missing key reads as 0.
Lookup(name) == IF name \in DOMAIN labels THEN labels[name] ELSE 0

\* The report of the fixup pass: value == 0.
Undefined(name) == Lookup(name) = 0

\* The bytes the fixup pass writes for a label.
Patch(name) ==
    LET value == Lookup(name)
        p1 == GoRem(value, 256)
        p2 == (value - p1) \div 256
    IN  <<byte(p1), byte(p2)>>

\* A fixup loop that deletes the entry it has patched.
FixupDeleting ==
    /\ pc = "fixup"
    /\ \E addr \in DOMAIN fixups \ visited :
        /\ warned' = IF Undefined(fixups[addr]) THEN warned \cup {addr} ELSE warned
        /\ mem' = Pages([bytecode EXCEPT ![addr + 1] = Patch(fixups[addr])[1],
                                          ![addr + 2] = Patch(fixups[addr])[2]])
        /\ fixups' = [a \in DOMAIN fixups \ {addr} |-> fixups[a]]
        /\ visited' = visited
    /\ UNCHANGED <<stream, pos, labels, pc, unhandled, failMsg, written>>

\* One turn of the fixup loop; range visits the entries in any order.
Fixup ==
    /\ pc = "fixup"
    /\ \E addr \in DOMAIN fixups \ visited :
        /\ warned' = IF Undefined(fixups[addr]) THEN warned \cup {addr} ELSE warned
        /\ mem' = Pages([bytecode EXCEPT ![addr + 1] = Patch(fixups[addr])[1],
                                          ![addr + 2] = Patch(fixups[addr])[2]])
        /\ visited' = visited \cup {addr}
    /\ UNCHANGED <<stream, pos, labels, fixups, pc, unhandled, failMsg, written>>

\* Compile returns once every entry has been visited.
Return ==
    /\ pc = "fixup"
    /\ visited = DOMAIN fixups
    /\ pc' = "done"
    /\ UNCHANGED <<stream, pos, mem, labels, fixups, visited, warned,
                   unhandled, failMsg, written>>

\* Write
Write ==
    /\ pc = "done"
    /\ written' = <<bytecode>>
    /\ pc' = "written"
    /\ UNCHANGED <<stream, pos, mem, labels, fixups, visited, warned,
                   unhandled, failMsg>>

Next ==
    \/ Label \/ Exit \/ Inc \/ Dec_ \/ Random \/ Ret \/ Call \/ IsInteger
    \/ IsString \/ String2Int \/ Int2String \/ System \/ Cmp \/ Concat_
    \/ Db \/ Data \/ Goto \/ Trap \/ Jmp \/ Jmpz \/ Jmpnz \/ Memcpy \/ Nop
    \/ Peek \/ Poke \/ Push \/ Pop \/ Store \/ PrintInt \/ PrintStr
    \/ Add \/ Xor \/ Sub \/ Mul \/ Div \/ And \/ Or
    \/ Unhandled \/ EndOfStream \/ Fixup \/ Return \/ Write

Spec == Init /\ [][Next]_vars

\* A step can be taken: the dispatcher loop has a case for every token (the
\* default case for the rest) and leaves at EOF, the fixup pass visits an
\* entry or returns, and Write follows Compile.  This is ENABLED <<Next>>_vars.
Running == pc \in {"scan", "fixup", "done"}

\* The program is sequential: a step that can be taken is taken.  This is
\* WF_vars(Next) with its ENABLED <<Next>>_vars written as Running; the
\* fairness of the steps between the phases follows from it.
FairSpec ==
    /\ Spec
    /\ ([]<>~Running \/ []<><<Next>>_vars)
    /\ WF_vars(EndOfStream) /\ WF_vars(Return) /\ WF_vars(Write)

-----------------------------------------------------------------------------
(* Vocabulary of the properties. *)

Scanning == pc = "scan"
Completed == pc \in {"done", "written"}
Aborted == pc \in {"exit", "panic"}

\* Register tokens by index, in and out of range.
GoodRegs == {Reg(r) : r \in 0..15}
BadRegs == {Reg(r) : r \in 16..20}
RegIndex(t) == CHOOSE r \in 0..15 : t = Reg(r)

\* The value of an integer token of the streams.
Values == Immediates \cup {1, 2, 3, 5, 7}
ValueOf(t) == CHOOSE v \in Values : t = Num(v)
IsValue(t) == \E v \in Values : t = Num(v)

\* lo, hi of a 16-bit field holding v.
Lo(v) == v % 256
Hi(v) == (v \div 256) % 256

\* The label a LABEL token defines.
LabelName(t) == SubSeq(t.Literal, 2, Len(t.Literal))

\* The two bytes at offset a.
BytesAt(a) == <<bytecode[a + 1], bytecode[a + 2]>>

-----------------------------------------------------------------------------
(* C1 *)

\* Scanning a label binds its name to the buffer length of that moment,
\* replacing an earlier binding, and nothing else changes the table.
C1Definition ==
    /\ (Scanning /\ curToken.Type = "LABEL") =>
         /\ LabelName(curToken) \in DOMAIN labels'
         /\ labels'[LabelName(curToken)] = Len(bytecode)
         /\ \A n \in DOMAIN labels' \ {LabelName(curToken)} :
                n \in DOMAIN labels /\ labels'[n] = labels[n]
         /\ bytecode' = bytecode
    /\ (labels' # labels) => (Scanning /\ curToken.Type = "LABEL")

\* C1 as stated: after Compile, every reference to a defined label holds
\* (off mod 256, off div 256), off the offset of the label's last definition.
C1Original ==
    Completed =>
        \A a \in DOMAIN fixups :
            fixups[a] \in DOMAIN labels =>
                BytesAt(a) = <<labels[fixups[a]] % 256, labels[fixups[a]] \div 256>>

C1Resolved ==
    Completed =>
        \A a \in DOMAIN fixups :
            fixups[a] \in DOMAIN labels =>
                BytesAt(a) = <<Lo(labels[fixups[a]]), Hi(labels[fixups[a]])>>

C1Example ==
    (Completed /\ toks = <<Kw("JMP"), Name(nameA), Lbl(nameA), Kw("EXIT")>>)
        => bytecode = <<JUMP_TO, 3, 0, EXIT>>

\* C1, amended: after Compile, every label reference (jmp/jmpz/jmpnz/goto,
\* call, store, cmp) whose name is defined holds (off mod 256, (off div 256)
\* mod 256), off being the buffer length when the label's last definition was
\* scanned, whether the definition comes before or after the reference;
\* `jmp a`, `:a`, `exit` gives operand bytes 3, 0.
C1Theorem == [](C1Resolved /\ C1Example) /\ [][C1Definition]_vars

\* A forward and a backward reference to one label.
C1Witness ==
    /\ Completed
    /\ \E a, b \in DOMAIN fixups :
        /\ fixups[a] = fixups[b]
        /\ fixups[a] \in DOMAIN labels
        /\ a < labels[fixups[a]]
        /\ labels[fixups[a]] < b
        /\ BytesAt(a) = BytesAt(b)
        /\ BytesAt(a)[1] > 0

-----------------------------------------------------------------------------
(* C2 *)

\* The operand positions of a mnemonic that hold a register.
RegisterPositions(type) ==
    IF type \in RegisterMnemonics THEN {1}
    ELSE IF type \in {"PEEK", "POKE", "STORE", "CMP"} THEN {1, 3}
    ELSE IF type \in MathMnemonics \cup {"MEMCPY", "CONCAT"} THEN {1, 3, 5}
    ELSE {}

\* The statement at the cursor is well-formed up to a register operand whose
\* index is out of range.
BadRegisterStatement ==
    \E k \in RegisterPositions(curToken.Type) :
        /\ Tok(pos + k) \in BadRegs
        /\ \A j \in 1..(k - 1) :
            IF j % 2 = 1 THEN Tok(pos + j) \in GoodRegs ELSE Tok(pos + j) = Comma

C2Stops ==
    /\ (Scanning /\ BadRegisterStatement) => (pc' = "exit" /\ Tok(pos') \in BadRegs)
    /\ ~Aborted

C2State ==
    /\ Aborted => (visited = {} /\ written = <<>>)
    /\ Completed => visited = DOMAIN fixups
    /\ written # <<>> => (pc = "written" /\ written = <<bytecode>>)

\* C2: in every statement form that takes a register operand, an index outside
\* 0..15 stops compilation at that statement: nothing happens afterwards, the
\* fixup pass does not run and the output is not written.  A compilation ends
\* completed with every fixup applied, or aborted with no output.
C2Theorem == []C2State /\ [][C2Stops]_vars

\* `store #16, ...` has ended the process at the register.
C2Witness ==
    /\ pc = "exit"
    /\ Tok(pos - 1).Type = "STORE"
    /\ curToken = Reg(16)
    /\ Len(toks) > pos

-----------------------------------------------------------------------------
(* C3 *)

\* C3: the fixup pass reports a fixup exactly when its label has no Symbol
\* Table entry, a label defined at offset 0 included.
C3Reports ==
    warned = {a \in visited : fixups[a] \notin DOMAIN labels}

-----------------------------------------------------------------------------
(* C4 *)

\* The number of operands a multi-operand statement checks as registers and
\* commas: all of them, or the register and the comma of store and cmp.
ShapeLength(type) ==
    IF type \in {"PEEK", "POKE"} THEN 3
    ELSE IF type \in MathMnemonics \cup {"MEMCPY", "CONCAT"} THEN 5
    ELSE IF type \in {"STORE", "CMP"} THEN 2
    ELSE 0

\* The statement at the cursor departs from IDENT , IDENT [, IDENT].
ShapeDeviation ==
    \E j \in 1..ShapeLength(curToken.Type) :
        Tok(pos + j).Type # (IF j % 2 = 1 THEN "IDENT" ELSE "COMMA")

\* C4: a multi-operand register statement that departs from the shape
\* IDENT , IDENT [, IDENT] at any position stops the compilation; none is
\* dropped with compilation going on, none takes a non-identifier as a register.
C4Fatal == [][(Scanning /\ ShapeDeviation) => Aborted']_vars

-----------------------------------------------------------------------------
(* C5 *)

\* The statement at the cursor has an operand of a kind it cannot encode.
BadOperand ==
    \/ curToken.Type = "TRAP" /\ Tok(pos + 1).Type # "INT"
    \/ /\ curToken.Type \in JumpMnemonics \cup {"CALL"}
       /\ Tok(pos + 1).Type \notin {"INT", "IDENT"}
    \/ /\ curToken.Type \in {"STORE", "CMP"}
       /\ ~ShapeDeviation
       /\ Tok(pos + 3).Type \notin {"INT", "STRING", "IDENT"}

\* C5: an operand of a kind the statement cannot encode (trap without an
\* integer, a jump or call with neither integer nor identifier, store or cmp
\* with neither literal nor identifier) stops the compilation, so no completed
\* compilation holds a partial encoding.
C5Fatal == [][(Scanning /\ BadOperand) => Aborted']_vars

-----------------------------------------------------------------------------
(* C6 *)

\* The buffer as the scan left it: every placeholder 0.
Placeholders(buf) ==
    [i \in 1..Len(buf) |->
        IF (i - 1) \in DOMAIN fixups \/ (i - 2) \in DOMAIN fixups THEN 0 ELSE buf[i]]

RECURSIVE PatchAll(_, _)
\* The fixup pass run on buf over the entries as, lowest offset first.
PatchAll(buf, as) ==
    IF as = {} THEN buf
    ELSE LET a == CHOOSE x \in as : \A y \in as : x <= y
         IN  PatchAll([buf EXCEPT ![a + 1] = Patch(fixups[a])[1],
                                  ![a + 2] = Patch(fixups[a])[2]],
                      as \ {a})

\* C6: the output is the same whatever order the fixup pass visits the Fixup
\* Table in: until its entry is visited a placeholder is 0, 0, and the final
\* buffer is the one the pass run in ascending order gives.
C6Deterministic ==
    /\ \A a \in DOMAIN fixups \ visited : BytesAt(a) = <<0, 0>>
    /\ Completed => bytecode = PatchAll(Placeholders(bytecode), DOMAIN fixups)
    /\ Completed => visited = DOMAIN fixups

\* A completed compilation with two fixups patched to different values, one of
\* them undefined.
C6Witness ==
    /\ Completed
    /\ \E a, b \in DOMAIN fixups :
        /\ BytesAt(a) # BytesAt(b)
        /\ fixups[a] \notin DOMAIN labels
        /\ fixups[b] \in DOMAIN labels

-----------------------------------------------------------------------------
(* C7 *)

\* The opcodes of store and cmp by operand kind.
IntForm(type) == IF type = "STORE" THEN INT_STORE ELSE CMP_IMMEDIATE
StringForm(type) == IF type = "STORE" THEN STRING_STORE ELSE CMP_STRING
RegForm(type) == IF type = "STORE" THEN REG_STORE ELSE CMP_REG

\* What `store r, x` or `cmp r, x` at the cursor must do.
StoreEncoding(r, x) ==
    /\ IsValue(x) =>
        /\ bytecode' = bytecode \o <<IntForm(curToken.Type), r, Lo(ValueOf(x)), Hi(ValueOf(x))>>
        /\ fixups' = fixups
    /\ x.Type = "STRING" =>
        /\ bytecode' = bytecode \o <<StringForm(curToken.Type), r,
                                     Lo(Len(x.Literal)), Hi(Len(x.Literal))>>
                                \o x.Literal
        /\ fixups' = fixups
    /\ x \in GoodRegs =>
        /\ bytecode' = bytecode \o <<RegForm(curToken.Type), r, RegIndex(x)>>
        /\ fixups' = fixups
    /\ (x.Type = "IDENT" /\ Len(x.Literal) > 0 /\ x.Literal[1] # chHash) =>
        /\ bytecode' = bytecode \o <<IntForm(curToken.Type), r, 0, 0>>
        /\ DOMAIN fixups' = DOMAIN fixups \cup {Len(bytecode) + 2}
        /\ fixups'[Len(bytecode) + 2] = x.Literal
        /\ \A a \in DOMAIN fixups : fixups'[a] = fixups[a]
    /\ (IsValue(x) \/ x.Type = "STRING" \/ x \in GoodRegs
            \/ (x.Type = "IDENT" /\ Len(x.Literal) > 0 /\ x.Literal[1] # chHash)) =>
        pc' = "scan"

C7Step ==
    \A r \in 0..15 :
        (/\ Scanning
         /\ curToken.Type \in {"STORE", "CMP"}
         /\ Tok(pos + 1) = Reg(r)
         /\ Tok(pos + 2) = Comma) => StoreEncoding(r, Tok(pos + 3))

C7Examples ==
    /\ \A r \in 0..15 :
        (Completed /\ toks = <<Kw("STORE"), Reg(r), Comma, Num(42)>>)
            => bytecode = <<INT_STORE, r, 42, 0>>
    /\ (Completed /\ toks = <<Kw("STORE"), Reg(1), Comma, Str(textAB)>>)
            => bytecode = <<STRING_STORE, 1, 2, 0, 65, 66>>

\* C7: `store r, x` and `cmp r, x`, r in 0..15, are encoded by the kind of x:
\* an integer as [INT_STORE | CMP_IMMEDIATE, r, lo, hi], a string as
\* [STRING_STORE | CMP_STRING, r, lenlo, lenhi, bytes...], a register as
\* [REG_STORE | CMP_REG, r, src], any other identifier as the integer form
\* with 0, 0 and a fixup at the lo byte.
C7Theorem == []C7Examples /\ [][C7Step]_vars

\* `exit`, `:b`, `cmp #0, b` compiled: the integer form with b's offset.
C7Witness ==
    /\ Completed
    /\ toks = <<Kw("EXIT"), Lbl(nameB), Kw("CMP"), Reg(0), Comma, Name(nameB)>>
    /\ bytecode = <<EXIT, CMP_IMMEDIATE, 0, 1, 0>>
    /\ fixups = (3 :> nameB)

-----------------------------------------------------------------------------
(* C8 *)

\* The two bytes of buf at offset a are the field lo, hi of v.
Field(buf, a, v) ==
    /\ buf[a + 1] = v % 256
    /\ buf[a + 2] = ((v - (v % 256)) \div 256) % 256
    /\ buf[a + 1] + 256 * buf[a + 2] = v % 65536

C8Step ==
    /\ \A v \in Values :
        (/\ Scanning
         /\ curToken.Type \in JumpMnemonics \cup {"CALL", "TRAP"}
         /\ Tok(pos + 1) = Num(v)) =>
            /\ Len(bytecode') = Len(bytecode) + 3
            /\ Field(bytecode', Len(bytecode) + 1, v)
    /\ (/\ Scanning
        /\ curToken.Type \in {"STORE", "CMP"}
        /\ Tok(pos + 1) \in GoodRegs
        /\ Tok(pos + 2) = Comma) =>
            /\ IsValue(Tok(pos + 3)) =>
                /\ Len(bytecode') = Len(bytecode) + 4
                /\ Field(bytecode', Len(bytecode) + 2, ValueOf(Tok(pos + 3)))
            /\ Tok(pos + 3).Type = "STRING" =>
                /\ Len(bytecode') = Len(bytecode) + 4 + Len(Tok(pos + 3).Literal)
                /\ Field(bytecode', Len(bytecode) + 2, Len(Tok(pos + 3).Literal))
    /\ (pc = "fixup") =>
            /\ Len(bytecode') = Len(bytecode)
            /\ \A a \in visited' \ visited :
                fixups[a] \in DOMAIN labels => Field(bytecode', a, labels[fixups[a]])

\* C8: every numeric field (immediate of store and cmp, target of a jump, call
\* or trap, string length, patched label offset) is two bytes lo, hi with
\* lo = v mod 256 and hi = ((v - lo) / 256) mod 256, so lo + 256 * hi is
\* v mod 65536: v itself up to 65535, wrapped without error above.
C8Theorem == [][C8Step]_vars

\* A string of more than 65535 bytes stored: its length field has wrapped.
C8Witness ==
    /\ Completed
    /\ Len(toks) = 4
    /\ toks[1].Type = "STORE"
    /\ toks[4].Type = "STRING"
    /\ Len(toks[4].Literal) > 65535
    /\ Len(bytecode) = 4 + Len(toks[4].Literal)
    /\ bytecode[3] + 256 * bytecode[4] = Len(toks[4].Literal) - 65536

-----------------------------------------------------------------------------
(* C9 *)

\* The tokens after the cursor are n integers separated by commas, and the
\* token after the last is no comma.
IntListAt(n) ==
    /\ \A i \in 1..n : IsValue(Tok(pos + 2 * i - 1))
    /\ \A i \in 1..(n - 1) : Tok(pos + 2 * i) = Comma
    /\ Tok(pos + 2 * n).Type # "COMMA"

C9Step ==
    (Scanning /\ curToken.Type \in {"DB", "DATA"}) =>
        /\ \A n \in 1..(MaxData + 1) :
            IntListAt(n) =>
                /\ bytecode' = bytecode \o [i \in 1..n |-> ValueOf(Tok(pos + 2 * i - 1)) % 256]
                /\ fixups' = fixups
                /\ pos' = pos + 2 * n
                /\ pc' = "scan"
        /\ Tok(pos + 1).Type = "STRING" =>
                /\ bytecode' = bytecode \o Tok(pos + 1).Literal
                /\ fixups' = fixups
                /\ pos' = pos + 2
                /\ pc' = "scan"

C9Example ==
    (Completed /\ toks = <<Kw("DB"), Num(1), Comma, Num(2), Comma, Num(3)>>)
        => bytecode = <<1, 2, 3>>

\* C9: db or data with a comma-separated list of n integers appends exactly
\* the n integers mod 256, in order, with no opcode and no fixup, the list
\* ending at the first token after an integer that is no comma; with a string
\* literal it appends exactly the string's bytes.
C9Theorem == []C9Example /\ [][C9Step]_vars

\* `data 300, 2, 1` compiled.
C9Witness ==
    /\ Completed
    /\ toks = <<Kw("DATA"), Num(300), Comma, Num(2), Comma, Num(1)>>
    /\ bytecode = <<44, 2, 1>>
    /\ fixups = NoFix

-----------------------------------------------------------------------------
(* C10 *)

C10Step ==
    /\ (pc = "fixup") =>
        /\ Len(bytecode') = Len(bytecode)
        /\ labels' = labels
        /\ fixups' = fixups
        /\ \A i \in 1..Len(bytecode) :
            bytecode'[i] # bytecode[i] =>
                \E a \in visited' \ visited : i \in {a + 1, a + 2}
    /\ (visited' # visited) =>
        /\ pc = "fixup"
        /\ visited \subseteq visited'
        /\ Cardinality(visited' \ visited) = 1
        /\ visited' \subseteq DOMAIN fixups

C10State ==
    (pc = "fixup" \/ visited # {}) => (curToken.Type = "EOF" /\ pos > Len(toks))

\* C10: the fixup pass only patches: the buffer keeps its length, no byte but
\* the two at a Fixup Table offset changes, the Symbol Table and the Fixup
\* Table stay as they are; and it runs only once the dispatcher has consumed
\* the whole token stream.
C10Theorem == []C10State /\ [][C10Step]_vars

\* The pass has patched a placeholder to a value other than 0, 0.
C10Witness ==
    /\ pc = "fixup"
    /\ \E a \in visited : BytesAt(a) # <<0, 0>>

-----------------------------------------------------------------------------
(* C11 *)

\* The token kinds the dispatcher has no case for.
NoEncoder(t) == t.Type \notin Mnemonics \cup {"LABEL", "EOF"}

C11Step ==
    (Scanning /\ NoEncoder(curToken)) =>
        /\ unhandled' = unhandled \cup {pos}
        /\ bytecode' = bytecode
        /\ labels' = labels
        /\ fixups' = fixups
        /\ pos' = pos + 1
        /\ Scanning'

C11State ==
    /\ \A i \in unhandled : i \in 1..Len(toks) /\ NoEncoder(toks[i])
    /\ Completed =>
        \A i \in 1..Len(toks) :
            (toks[i].Type \in {"INT", "COMMA", "STRING"}
                /\ \A j \in 1..(i - 1) : NoEncoder(toks[j]) \/ toks[j].Type = "LABEL")
            => i \in unhandled

\* C11: a token at statement position whose kind has no encoder and is not a
\* label is reported and skipped: the buffer, the Symbol Table and the Fixup
\* Table stay as they are, exactly that token is consumed, and the dispatcher
\* stays in its loop on the token after it; only such tokens are reported.
C11Theorem == []C11State /\ [][C11Step]_vars

\* A stray integer was reported and the statement after it was compiled.
C11Witness ==
    /\ Completed
    /\ toks = <<Num(7), Kw("EXIT")>>
    /\ unhandled = {1}
    /\ bytecode = <<EXIT>>

-----------------------------------------------------------------------------
(* C12 *)

\* The run has ended.
Ended == Completed \/ Aborted

C12Step ==
    /\ pos' >= pos
    /\ (Scanning /\ Scanning') => pos' > pos
    /\ (Scanning /\ ~Scanning' /\ ~Aborted') => (curToken.Type = "EOF" /\ pos' = pos)
    /\ (Scanning /\ Scanning' /\ curToken.Type \in {"DB", "DATA"}
            /\ peekToken.Type # "STRING") =>
        pos' - pos = 2 * (Len(bytecode') - Len(bytecode))
    /\ (pc = "fixup" /\ pc' = "fixup") =>
        \E a \in DOMAIN fixups \ visited : visited' = visited \cup {a}
    /\ (pc = "fixup" /\ pc' # "fixup") => (visited = DOMAIN fixups /\ Completed')

C12State ==
    /\ visited \subseteq DOMAIN fixups
    /\ Completed => (visited = DOMAIN fixups /\ pos > Len(toks))

\* C12: Compile always ends, completed or aborted: a turn of the dispatcher
\* loop that stays in the loop moves the cursor forward, a data list pays two
\* tokens for every byte, the cursor never moves backwards, the loop is left
\* only at end-of-stream or by an abort, and every turn of the fixup pass
\* visits one entry not visited before.
C12Theorem == <>Ended /\ []C12State /\ [][C12Step]_vars

\* A data list and a label reference were compiled to the end of the stream.
C12Witness ==
    /\ Completed
    /\ toks = <<Kw("DB"), Num(1), Comma, Num(2), Kw("JMP"), Name(nameA)>>
    /\ pos = 7
    /\ bytecode = <<1, 2, JUMP_TO, 0, 0>>
    /\ visited = {3}

-----------------------------------------------------------------------------
(* C13 *)

\* The opcodes whose operand is the two bytes after the opcode.
JumpOpcodes == {JUMP_TO, JUMP_Z, JUMP_NZ, STACK_CALL}

\* Offset a of buf is the lo operand byte of a jump or call, or of an
\* INT_STORE or CMP_IMMEDIATE with its register byte.
OperandAt(buf, a) ==
    \/ a >= 1 /\ buf[a] \in JumpOpcodes
    \/ a >= 2 /\ buf[a - 1] \in {INT_STORE, CMP_IMMEDIATE} /\ buf[a] \in 0..15

\* The buffer offsets of the entry at a.
Range(a) == {a, a + 1}

C13State ==
    \A a \in DOMAIN fixups :
        /\ a >= 0
        /\ a + 1 < Len(bytecode)
        /\ OperandAt(bytecode, a)
        /\ Scanning => BytesAt(a) = <<0, 0>>
        /\ \A b \in DOMAIN fixups \ {a} : Range(a) \cap Range(b) = {}

C13Step ==
    /\ \A a \in DOMAIN fixups : a \in DOMAIN fixups' /\ fixups'[a] = fixups[a]
    /\ \A a \in DOMAIN fixups' \ DOMAIN fixups :
        /\ Scanning
        /\ DOMAIN fixups' \ DOMAIN fixups = {a}
        /\ fixups'[a] = Tok(pos' - 1).Literal
        /\ \/ /\ curToken.Type \in JumpMnemonics \cup {"CALL"}
              /\ a = Len(bytecode) + 1
              /\ \E op \in JumpOpcodes : bytecode' = bytecode \o <<op, 0, 0>>
           \/ /\ curToken.Type \in {"STORE", "CMP"}
              /\ a = Len(bytecode) + 2
              /\ \E r \in 0..15 :
                    bytecode' = bytecode \o <<IntForm(curToken.Type), r, 0, 0>>
    /\ Scanning =>
        /\ Len(bytecode') >= Len(bytecode)
        /\ \A a \in DOMAIN fixups : <<bytecode'[a + 1], bytecode'[a + 2]>> = BytesAt(a)
    /\ (pc = "fixup") =>
        /\ Len(bytecode') = Len(bytecode)
        /\ \A i \in 1..Len(bytecode) :
            bytecode'[i] # bytecode[i] => \E a \in DOMAIN fixups : i - 1 \in Range(a)

\* C13: every Fixup Table offset a has a + 1 inside the buffer and is the lo
\* operand byte of a jump, call, INT_STORE or CMP_IMMEDIATE instruction; while
\* scanning the bytes at a and a + 1 are 0, 0; the ranges of distinct entries
\* do not overlap; an entry is made together with its instruction and never
\* changes; and the fixup pass writes only inside the ranges of the entries.
C13Theorem == []C13State /\ [][C13Step]_vars

\* A jump and a store of the same label, both patched.
C13Witness ==
    /\ pc = "fixup"
    /\ toks = <<Kw("JMP"), Name(nameA), Lbl(nameA),
                Kw("STORE"), Reg(1), Comma, Name(nameA)>>
    /\ DOMAIN fixups = {1, 5}
    /\ visited = {1, 5}
    /\ bytecode = <<JUMP_TO, 3, 0, INT_STORE, 1, 3, 0>>

====
